---- MODULE Spec2Model ----
\* Model of dl_utils/dataset_splitter.py (split_class, split_dataset); the copy
\* of both functions in dl_utils/dl_utils.py is line-for-line the same code.
\*
\* Ratios are Python floats in the source.  They are represented here as
\* integers in units of 0.002 (0.8 is 400, 1.0 is 500); the float of k units
\* is the double nearest to k/500.  A sum of such ratios is never half-way
\* between two hundredths, so round(sum, 2) does not depend on how the float
\* sum was rounded.  int(total * r) is computed as the source computes it, a
\* double-precision product that is then truncated (IntOfProduct): it is one
\* less than the exact quotient where the product rounds below an integer
\* (90 * 0.7 is 62.99999999999999).
EXTENDS Integers, Sequences, FiniteSets, TLC

VARIABLES
    ratio,          \* argument: <<train, val, test>> in units of 0.002
    move,           \* argument: move instead of copy
    seed,           \* argument: <<>> is None, <<s>> is the integer s
    shuffle,        \* argument
    assertions,     \* whether the interpreter executes assert statements (not under -O)
    src,            \* filesystem: class directory -> its listing (os.listdir order)
    out,            \* filesystem: <<split, class>> -> file names in output_dir/split/class
    dirs,           \* filesystem: the <<split, class>> directories that exist
    rng,            \* state of the process-wide random source
    pc,             \* control position
    i,              \* split_dataset: index of the entry of data_dir being visited (0: not listed yet)
    images,         \* split_class: the (post-shuffle) image list
    splits,         \* split_class: the dict of split groups, in insertion order
    g,              \* split_class: index of the split group being processed
    j,              \* split_class: index of the image being placed (0: group not entered)
    class_details,  \* split_class: the summary being built
    summary,        \* split_dataset: the local list of summaries
    ret,            \* what split_dataset returned
    err,            \* the exception that ended the run ("" if none)
    run,            \* number of the current split_dataset invocation (1 or 2)
    assign,         \* class -> for each split group of the current run, the set of its images
    src0,           \* history: the source tree when the current run started
    called,         \* history: the classes split_class was called for in the current run
    hist            \* history: out, dirs, assign, summary, called at the end of the previous run

vars == <<ratio, move, seed, shuffle, assertions, src, out, dirs, rng, pc, i, images, splits,
          g, j, class_details, summary, ret, err, run, assign, src0, called, hist>>

-----------------------------------------------------------------------------
\* Bounds

MaxImages == 3      \* qualifying images per class directory
MaxDataset == 4     \* qualifying images in all class directories together
MaxJunk == 1        \* non-image files per class directory
MaxTotal == 500     \* images of the class in the slicing specification

-----------------------------------------------------------------------------
\* Values

None == <<>>
Seeds == {None, <<42>>}
\* 0.0, 0.004, 0.5, 1.0
RatioValues == {0, 2, 250, 500}
\* the default of the ratio parameter: (0.7, 0.2, 0.1)
DefaultRatio == <<350, 100, 50>>
\* 0.0, 0.004, 0.01, 0.1, 0.2, 0.29, 0.5, 0.7, 0.8, 1.0
SliceRatioValues == {0, 2, 5, 50, 100, 145, 250, 350, 400, 500}
\* ratios that fail the sum check: (0.7, 0.2, 0.05), (0.7, 0.2, 0.0),
\* (0.5, 0.5, 0.5), (0.0, 0.0, 0.0)
FailingRatios == {<<350, 100, 25>>, <<350, 100, 0>>, <<250, 250, 250>>, <<0, 0, 0>>}
SplitNames == <<"train", "val", "test">>

\* default of the image_extensions parameter
image_extensions == {".png", ".jpg", ".jpeg"}

ImageExts == <<".jpg", ".PNG", ".jpeg", ".JPG">>
JunkExts == <<".txt", ".gif">>

\* str.lower() on the suffixes that occur
Lower(e) ==
    CASE e = ".PNG" -> ".png"
      [] e = ".JPG" -> ".jpg"
      [] OTHER -> e

\* the entries of data_dir, in os.listdir order
data_dir == << [name |-> "cat", isdir |-> TRUE],
               [name |-> "README.md", isdir |-> FALSE],
               [name |-> "dog", isdir |-> TRUE] >>

ClassNames == {data_dir[k].name : k \in {k \in 1..Len(data_dir) : data_dir[k].isdir}}

OutDirs == {<<s, c>> : s \in {"train", "val", "test"}, c \in ClassNames}

\* a class directory listing with n images and k other files
Listing(n, k) ==
    [x \in 1..k |-> [stem |-> 100 + x, ext |-> JunkExts[((x - 1) % Len(JunkExts)) + 1]]]
    \o [x \in 1..n |-> [stem |-> x, ext |-> ImageExts[((x - 1) % Len(ImageExts)) + 1]]]

Min(a, b) == IF a < b THEN a ELSE b

-----------------------------------------------------------------------------
\* split_class, the pure parts

\* round(x, 2) on units of 0.002: to the nearest hundredth (5 units); a
\* multiple of 0.002 is at least 0.001 away from the middle of two hundredths
Round2(x) ==
    LET q == x \div 5
        r == x % 5
    IN  IF r <= 2 THEN 5 * q ELSE 5 * (q + 1)

\* the assertion of lines 35-37
RatioOk(r) == Round2(r[1] + r[2] + r[3]) = 500

\* file.lower().endswith(image_extensions)
IsImage(f) == Lower(f.ext) \in image_extensions

\* the list comprehension of lines 41-45
Qualifying(listing) == SelectSeq(listing, IsImage)

\* mutant: the seed is never applied
ReseedNever(sd, r) == r

\* The random source.  Its state is [seed, words]: the seed it was last seeded
\* with and the number of 32-bit words drawn since.  A state whose seed is
\* None is one the model knows nothing about (seeded by the system, or used by
\* other code): every draw from it can give every value.
Unknown == [seed |-> None, words |-> 0]

\* the top 8 bits of the first words the generator gives after random.seed(42)
Words42 == <<163, 28, 6, 189, 70, 62, 57, 35, 188, 26, 173, 189, 228, 139, 22, 151>>

\* lines 56-57: random.seed(seed) when seed is not None
Reseed(sd, r) == IF sd = None THEN r ELSE [seed |-> sd, words |-> 0]

RECURSIVE BitLength(_)
\* int.bit_length()
BitLength(n) == IF n = 0 THEN 0 ELSE 1 + BitLength(n \div 2)

RECURSIVE Pow2(_)
Pow2(k) == IF k = 0 THEN 1 ELSE 2 * Pow2(k - 1)

\* getrandbits(k) on word w of the stream: the top k bits of the word
GetRandBits(w, k) == Words42[w] \div Pow2(8 - k)

AnyDraw(n) == {[value |-> v, rng |-> Unknown] : v \in 0..(n - 1)}

RECURSIVE NextRng(_, _)
\* randbelow(n): r = getrandbits(k); while r >= n: r = getrandbits(k).
\* The outcomes of drawing from word w + 1 on, as [value, rng].
NextRng(w, n) ==
    IF w + 1 > Len(Words42) \/ BitLength(n) > 8 THEN AnyDraw(n)
    ELSE LET v == GetRandBits(w + 1, BitLength(n))
         IN  IF v < n THEN {[value |-> v, rng |-> [seed |-> <<42>>, words |-> w + 1]]}
             ELSE NextRng(w + 1, n)

\* random's randbelow(n) on the state r: the possible [value, rng]
RandBelow(r, n) == IF r.seed = <<42>> THEN NextRng(r.words, n) ELSE AnyDraw(n)

Swap(x, a, b) == [x EXCEPT ![a] = x[b], ![b] = x[a]]

RECURSIVE ShuffleFrom(_, _, _)
\* random.shuffle: for i in reversed(range(1, len(x))): j = randbelow(i + 1); swap.
\* The possible [list, rng].
ShuffleFrom(x, k, r) ==
    IF k < 2 THEN {[list |-> x, rng |-> r]}
    ELSE UNION {ShuffleFrom(Swap(x, k, d.value + 1), k - 1, d.rng) : d \in RandBelow(r, k)}

Shuffle(x, r) == ShuffleFrom(x, Len(x), r)

\* mutant: the shuffle flag is ignored
ShuffledAlways(x, r, sh) == ShuffleFrom(x, Len(x), r)

\* lines 59-60: if shuffle: random.shuffle(images)
Shuffled(x, r, sh) == IF sh THEN Shuffle(x, r) ELSE {[list |-> x, rng |-> r]}

\* images[a:b] of Python, a and b 0-based, both clipped to the list
PySlice(s, a, b) == SubSeq(s, a + 1, Min(b, Len(s)))

RECURSIVE BinaryPlaces(_)
\* the n with 2^-n <= k/500 < 2^(1-n), for 1 <= k <= 500: the double of the
\* ratio has a 53-bit significand m and the value m * 2^-(52+n)
BinaryPlaces(k) == IF k >= 500 THEN 0 ELSE 1 + BinaryPlaces(2 * k)

RECURSIVE Pow2Mod500(_)
Pow2Mod500(n) == IF n = 0 THEN 1 ELSE (2 * Pow2Mod500(n - 1)) % 500

\* the remainder of k * 2^(52+n) divided by 500.  The significand of the
\* double of k units is the quotient, rounded to nearest: a remainder below
\* 250 is what the double falls short of k/500 (in units of 2^-(52+n) / 500),
\* a remainder of 0 means the double is exact, one above 250 that the double
\* lies above k/500 (250 itself does not occur).
DoubleRemainder(k) == (k * Pow2Mod500(52 + BinaryPlaces(k))) % 500

\* int(total_images * ratio) of lines 62 and 63: the product of the integer
\* and the double of k units, rounded to a double (to nearest, ties to even),
\* then truncated.  The exact quotient q = total * k / 500 is the result
\* unless it is a whole number, the double of the ratio falls short, and the
\* product total * double rounds to the double just below q rather than to q:
\* that is when the shortfall total * remainder * 2^-(52+n) / 500 is more
\* than half the distance 2^(gap-52) from q to the double below it.
IntOfProduct(total, k) ==
    LET q == (total * k) \div 500
        rem == DoubleRemainder(k)
        p == BitLength(q) - 1
        gap == IF q = Pow2(p) THEN p - 1 ELSE p
    IN  IF (total * k) % 500 # 0 \/ q = 0 THEN q
        ELSE IF rem = 0 \/ rem > 250 THEN q
        ELSE IF total * rem > 125 * Pow2(gap + BinaryPlaces(k) + 1) THEN q - 1
        ELSE q

\* line 62
train_end(total, r) == IntOfProduct(total, r[1])

\* line 63
val_end(total, r) == train_end(total, r) + IntOfProduct(total, r[2])

\* mutant: the test slice starts at train_end
MakeSplitsOverlap(imgs, r) ==
    LET total == Len(imgs)
        te == train_end(total, r)
        ve == val_end(total, r)
    IN  (IF r[1] > 0 THEN << [name |-> "train", images |-> PySlice(imgs, 0, te)] >> ELSE << >>)
        \o (IF r[2] > 0 THEN << [name |-> "val", images |-> PySlice(imgs, te, ve)] >> ELSE << >>)
        \o (IF r[3] > 0 THEN << [name |-> "test", images |-> PySlice(imgs, te, total)] >> ELSE << >>)

\* lines 65-71: the dict of split groups, in insertion order
MakeSplits(imgs, r) ==
    LET total == Len(imgs)
        te == train_end(total, r)
        ve == val_end(total, r)
    IN  (IF r[1] > 0 THEN << [name |-> "train", images |-> PySlice(imgs, 0, te)] >> ELSE << >>)
        \o (IF r[2] > 0 THEN << [name |-> "val", images |-> PySlice(imgs, te, ve)] >> ELSE << >>)
        \o (IF r[3] > 0 THEN << [name |-> "test", images |-> PySlice(imgs, ve, total)] >> ELSE << >>)

\* line 73
NewDetails(c, total) == [class |-> c, total |-> total, train |-> 0, val |-> 0, test |-> 0]

NoDetails == [class |-> "", total |-> 0, train |-> 0, val |-> 0, test |-> 0]

SetCount(d, s, n) ==
    CASE s = "train" -> [d EXCEPT !.train = n]
      [] s = "val" -> [d EXCEPT !.val = n]
      [] s = "test" -> [d EXCEPT !.test = n]

Remove(listing, f) == SelectSeq(listing, LAMBDA x : x # f)

Range(s) == {s[k] : k \in 1..Len(s)}

\* the file-to-split assignment of a dict of split groups
Assignment(sp) == [k \in 1..Len(sp) |-> [name |-> sp[k].name, images |-> Range(sp[k].images)]]

EmptyHist == [out |-> [d \in OutDirs |-> {}], dirs |-> {},
              assign |-> [c \in ClassNames |-> << >>], summary |-> << >>, called |-> {}]

\* the ratio arguments: the default, every triple of RatioValues that passes
\* the check of lines 35-37, and the failing ones
Ratios ==
    {r \in RatioValues \X RatioValues \X RatioValues : RatioOk(r)}
        \cup {DefaultRatio} \cup FailingRatios

-----------------------------------------------------------------------------
\* State machine of split_dataset calling split_class

Init ==
    /\ ratio \in Ratios
    /\ move \in BOOLEAN
    /\ seed \in Seeds
    /\ shuffle \in BOOLEAN
    \* the assert statements of a passing ratio do nothing: assertions are
    \* switched off only together with a failing ratio
    /\ assertions \in (IF RatioOk(ratio) THEN {TRUE} ELSE BOOLEAN)
    /\ \E n \in [ClassNames -> 0..MaxImages], k \in 0..MaxJunk :
           /\ n["cat"] + n["dog"] <= MaxDataset
           /\ src = [c \in ClassNames |-> Listing(n[c], k)]
    /\ src0 = src
    /\ called = {}
    /\ out = [d \in OutDirs |-> {}]
    /\ dirs = {}
    /\ rng = Unknown
    /\ pc = "start"
    /\ i = 0
    /\ images = << >>
    /\ splits = << >>
    /\ g = 1
    /\ j = 0
    /\ class_details = NoDetails
    /\ summary = << >>
    /\ ret = [none |-> TRUE, list |-> << >>]
    /\ err = ""
    /\ run = 1
    /\ assign = [c \in ClassNames |-> << >>]
    /\ hist = EmptyHist

args == <<ratio, move, seed, shuffle, assertions>>
locals == <<images, splits, g, j, class_details>>
fs == <<src, out, dirs>>

\* split_dataset line 127: os.listdir(data_dir) gives the entries to visit
ListDataDir ==
    /\ pc = "start"
    /\ pc' = "loop"
    /\ i' = 1
    /\ UNCHANGED <<args, fs, rng, locals, summary, ret, err, run, assign, src0, called, hist>>

\* split_dataset line 127: os.listdir(data_dir) raises; nothing was visited
ListDataDirFails ==
    /\ pc = "start"
    /\ pc' = "aborted"
    /\ err' = "OSError"
    /\ UNCHANGED <<args, fs, rng, i, locals, summary, ret, run, assign, src0, called, hist>>

\* line 128: os.path.isdir(class_path) is False for an entry that is not a
\* directory, and it is also False for a directory when the stat of the path
\* fails (data_dir not searchable): isdir swallows the OSError
IsDir(e) == IF e.isdir THEN {TRUE, FALSE} ELSE {FALSE}

\* split_dataset lines 127-129: an entry os.path.isdir does not take for a
\* directory is passed over
SkipEntry ==
    /\ pc = "loop"
    /\ i <= Len(data_dir)
    /\ FALSE \in IsDir(data_dir[i])
    /\ i' = i + 1
    /\ UNCHANGED <<args, fs, rng, pc, locals, summary, ret, err, run, assign, src0, called, hist>>

\* lines 35-37: the assert statement lets the call go on when the ratio passes,
\* and also when the interpreter does not execute assert statements
PassesAssert == ~assertions \/ RatioOk(ratio)

\* split_class lines 34-37: the assertion fails; the error leaves split_dataset
SplitClassAssertFails ==
    /\ pc = "loop"
    /\ i <= Len(data_dir)
    /\ TRUE \in IsDir(data_dir[i])
    /\ called' = called \cup {data_dir[i].name}
    /\ ~PassesAssert
    /\ pc' = "aborted"
    /\ err' = "AssertionError"
    /\ UNCHANGED <<args, fs, rng, i, locals, summary, ret, run, assign, src0, hist>>

\* split_class lines 34-51: no qualifying image, returns None; split_dataset
\* lines 142-143 append nothing
SplitClassEmpty ==
    /\ pc = "loop"
    /\ i <= Len(data_dir)
    /\ TRUE \in IsDir(data_dir[i])
    /\ called' = called \cup {data_dir[i].name}
    /\ PassesAssert
    /\ Len(Qualifying(src[data_dir[i].name])) = 0
    /\ i' = i + 1
    /\ UNCHANGED <<args, fs, rng, pc, locals, summary, ret, err, run, assign, src0, hist>>

\* split_class lines 41-45: os.listdir(class_dir) raises; the error leaves
\* split_dataset
ListClassDirFails ==
    /\ pc = "loop"
    /\ i <= Len(data_dir)
    /\ TRUE \in IsDir(data_dir[i])
    /\ called' = called \cup {data_dir[i].name}
    /\ PassesAssert
    /\ pc' = "aborted"
    /\ err' = "OSError"
    /\ UNCHANGED <<args, fs, rng, i, locals, summary, ret, run, assign, src0, hist>>

\* split_class lines 34-73: list, seed, shuffle, slice
SplitClassBegin ==
    /\ pc = "loop"
    /\ i <= Len(data_dir)
    /\ TRUE \in IsDir(data_dir[i])
    /\ called' = called \cup {data_dir[i].name}
    /\ PassesAssert
    /\ LET c == data_dir[i].name
           listed == Qualifying(src[c])
       IN  /\ Len(listed) > 0
           /\ \E sh \in Shuffled(listed, Reseed(seed, rng), shuffle) :
                  /\ images' = sh.list
                  /\ rng' = sh.rng
                  /\ splits' = MakeSplits(sh.list, ratio)
                  /\ assign' = [assign EXCEPT ![c] = Assignment(MakeSplits(sh.list, ratio))]
           /\ class_details' = NewDetails(c, Len(listed))
    /\ g' = 1
    /\ j' = 0
    /\ pc' = "place"
    /\ UNCHANGED <<args, fs, i, summary, ret, err, run, src0, hist>>

\* mutant: the directory is created before the group is tested for emptiness
BeginGroupMkdirFirst ==
    /\ pc = "place"
    /\ g <= Len(splits)
    /\ j = 0
    /\ LET split_name == splits[g].name
           split_images == splits[g].images
       IN  /\ class_details' = SetCount(class_details, split_name, Len(split_images))
           /\ dirs' = dirs \cup {<<split_name, data_dir[i].name>>}
           /\ IF Len(split_images) = 0
              THEN g' = g + 1 /\ UNCHANGED j
              ELSE j' = 1 /\ UNCHANGED g
    /\ UNCHANGED <<args, src, out, rng, pc, i, images, splits, summary, ret, err, run,
                   assign, src0, called, hist>>

\* split_class lines 75-81: enter the next split group
BeginGroup ==
    /\ pc = "place"
    /\ g <= Len(splits)
    /\ j = 0
    /\ LET split_name == splits[g].name
           split_images == splits[g].images
       IN  /\ class_details' = SetCount(class_details, split_name, Len(split_images))
           /\ IF Len(split_images) = 0
              THEN /\ g' = g + 1
                   /\ UNCHANGED <<j, dirs>>
              ELSE /\ dirs' = dirs \cup {<<split_name, data_dir[i].name>>}
                   /\ j' = 1
                   /\ UNCHANGED g
    /\ UNCHANGED <<args, src, out, rng, pc, i, images, splits, summary, ret, err, run,
                   assign, src0, called, hist>>

\* mutant: a move leaves the source entry in place
PlaceFileNeverRemoves ==
    /\ pc = "place"
    /\ g <= Len(splits)
    /\ j >= 1
    /\ out' = [out EXCEPT ![<<splits[g].name, data_dir[i].name>>] =
                              @ \cup {splits[g].images[j]}]
    /\ IF j = Len(splits[g].images)
       THEN g' = g + 1 /\ j' = 0
       ELSE j' = j + 1 /\ UNCHANGED g
    /\ UNCHANGED <<args, src, dirs, rng, pc, i, images, splits, class_details, summary,
                   ret, err, run, assign, src0, called, hist>>

\* mutant: the move flag is ignored and every placement moves
PlaceFileAlwaysMoves ==
    /\ pc = "place"
    /\ g <= Len(splits)
    /\ j >= 1
    /\ LET c == data_dir[i].name
           d == <<splits[g].name, c>>
           image_name == splits[g].images[j]
       IN  /\ out' = [out EXCEPT ![d] = @ \cup {image_name}]
           /\ src' = [src EXCEPT ![c] = Remove(@, image_name)]
    /\ IF j = Len(splits[g].images)
       THEN g' = g + 1 /\ j' = 0
       ELSE j' = j + 1 /\ UNCHANGED g
    /\ UNCHANGED <<args, dirs, rng, pc, i, images, splits, class_details, summary, ret,
                   err, run, assign, src0, called, hist>>

\* split_class lines 75-81: os.makedirs raises (output_dir is below a regular
\* file, permission denied, ...); the count of the group is already set
MakeDirsFails ==
    /\ pc = "place"
    /\ g <= Len(splits)
    /\ j = 0
    /\ Len(splits[g].images) > 0
    /\ class_details' = SetCount(class_details, splits[g].name, Len(splits[g].images))
    /\ pc' = "aborted"
    /\ err' = "OSError"
    /\ UNCHANGED <<args, fs, rng, i, images, splits, g, j, summary, ret, run, assign,
                   src0, called, hist>>

\* split_class lines 83-89: place one image
PlaceFile ==
    /\ pc = "place"
    /\ g <= Len(splits)
    /\ j >= 1
    /\ LET c == data_dir[i].name
           d == <<splits[g].name, c>>
           image_name == splits[g].images[j]
       IN  /\ out' = [out EXCEPT ![d] = @ \cup {image_name}]
           /\ src' = IF move THEN [src EXCEPT ![c] = Remove(@, image_name)] ELSE src
    /\ IF j = Len(splits[g].images)
       THEN g' = g + 1 /\ j' = 0
       ELSE j' = j + 1 /\ UNCHANGED g
    /\ UNCHANGED <<args, dirs, rng, pc, i, images, splits, class_details, summary, ret,
                   err, run, assign, src0, called, hist>>

\* mutant: the error of a placement is caught and the loop goes on
PlaceFileFailsContinue ==
    /\ pc = "place"
    /\ g <= Len(splits)
    /\ j >= 1
    /\ err' = "OSError"
    /\ IF j = Len(splits[g].images)
       THEN g' = g + 1 /\ j' = 0
       ELSE j' = j + 1 /\ UNCHANGED g
    /\ UNCHANGED <<args, fs, rng, pc, i, images, splits, class_details, summary, ret,
                   run, assign, src0, called, hist>>

\* split_class lines 86-89: shutil.move / shutil.copy2 raises; nothing catches
\* it in split_class or split_dataset.  The source entry is still there; the
\* destination may or may not have been written before the error.
PlaceFileFails ==
    /\ pc = "place"
    /\ g <= Len(splits)
    /\ j >= 1
    /\ \E written \in BOOLEAN :
           out' = IF written
                  THEN [out EXCEPT ![<<splits[g].name, data_dir[i].name>>] =
                                       @ \cup {splits[g].images[j]}]
                  ELSE out
    /\ pc' = "aborted"
    /\ err' = "OSError"
    /\ UNCHANGED <<args, src, dirs, rng, i, locals, summary, ret, run, assign, src0, called, hist>>

\* split_class line 97 and split_dataset lines 142-143; the locals of
\* split_class end with the call
ReturnClass ==
    /\ pc = "place"
    /\ g > Len(splits)
    /\ summary' = Append(summary, class_details)
    /\ i' = i + 1
    /\ pc' = "loop"
    /\ images' = << >>
    /\ splits' = << >>
    /\ g' = 1
    /\ j' = 0
    /\ class_details' = NoDetails
    /\ UNCHANGED <<args, fs, rng, ret, err, run, assign, src0, called, hist>>

\* split_dataset: the loop of line 127 is exhausted and the function ends
\* without a return statement
Return ==
    /\ pc = "loop"
    /\ i > Len(data_dir)
    /\ ret' = [none |-> TRUE, list |-> << >>]
    /\ pc' = "done"
    /\ UNCHANGED <<args, fs, rng, i, locals, summary, err, run, assign, src0, called, hist>>

\* the caller invokes split_dataset a second time with the same arguments, in
\* the same process or in a new one; other code may have used the random
\* source in between
Rerun ==
    /\ pc = "done"
    /\ run = 1
    /\ run' = run + 1
    /\ hist' = [out |-> out, dirs |-> dirs, assign |-> assign, summary |-> summary,
                called |-> called]
    /\ src0' = src
    /\ called' = {}
    /\ rng' \in {rng, Unknown}
    /\ pc' = "start"
    /\ i' = 0
    /\ images' = << >>
    /\ splits' = << >>
    /\ g' = 1
    /\ j' = 0
    /\ class_details' = NoDetails
    /\ summary' = << >>
    /\ assign' = [c \in ClassNames |-> << >>]
    /\ UNCHANGED <<args, fs, ret, err>>

Next ==
    \/ ListDataDir
    \/ ListDataDirFails
    \/ SkipEntry
    \/ SplitClassAssertFails
    \/ ListClassDirFails
    \/ SplitClassEmpty
    \/ SplitClassBegin
    \/ BeginGroup
    \/ MakeDirsFails
    \/ PlaceFile
    \/ PlaceFileFails
    \/ ReturnClass
    \/ Return
    \/ Rerun

Spec == Init /\ [][Next]_vars

-----------------------------------------------------------------------------
\* Slicing specification: lines 62-71 applied to one post-shuffle list of up
\* to MaxTotal images, for the ratios that pass the assertion

SliceInit ==
    /\ ratio \in {r \in SliceRatioValues \X SliceRatioValues \X SliceRatioValues : RatioOk(r)}
    /\ \E n \in 1..MaxTotal : images = Qualifying(Listing(n, 0))
    /\ move = FALSE
    /\ seed = None
    /\ shuffle = FALSE
    /\ assertions = TRUE
    /\ src = [c \in ClassNames |-> << >>]
    /\ src0 = src
    /\ called = {}
    /\ out = [d \in OutDirs |-> {}]
    /\ dirs = {}
    /\ rng = Unknown
    /\ pc = "slice"
    /\ i = 1
    /\ splits = << >>
    /\ g = 1
    /\ j = 0
    /\ class_details = NoDetails
    /\ summary = << >>
    /\ ret = [none |-> TRUE, list |-> << >>]
    /\ err = ""
    /\ run = 1
    /\ assign = [c \in ClassNames |-> << >>]
    /\ hist = EmptyHist

SliceApply ==
    /\ pc = "slice"
    /\ splits' = MakeSplits(images, ratio)
    /\ pc' = "sliced"
    /\ UNCHANGED <<args, fs, rng, i, images, g, j, class_details, summary, ret, err, run,
                   assign, src0, called, hist>>

SliceNext == SliceApply

SliceSpec == SliceInit /\ [][SliceNext]_vars

-----------------------------------------------------------------------------
\* Properties

Idx(s) == CHOOSE k \in 1..3 : SplitNames[k] = s

\* the images assigned to split s of class c in the current run
Assigned(c, s) ==
    UNION {assign[c][k].images : k \in {k \in 1..Len(assign[c]) : assign[c][k].name = s}}

\* names of the class directories holding a qualifying image when the run started
ExpectedClasses ==
    LET kept == SelectSeq(data_dir,
                    LAMBDA e : e.isdir /\ Len(Qualifying(src0[e.name])) > 0)
    IN  [k \in 1..Len(kept) |-> kept[k].name]

GroupLen(name) ==
    LET ks == {k \in 1..Len(splits) : splits[k].name = name}
    IN  IF ks = {} THEN 0 ELSE Len(splits[CHOOSE k \in ks : TRUE].images)

Floor(total, r) == (total * r) \div 500

\* C1: for a ratio that passes the sum check, every summary has
\* train + val + test = total
C1_Completeness ==
    RatioOk(ratio) =>
        \A k \in 1..Len(summary) :
            summary[k].train + summary[k].val + summary[k].test = summary[k].total

\* C2: split_dataset returns the report, one summary per class directory with
\* a qualifying image, in enumeration order
C2_ReturnsReport ==
    pc = "done" =>
        /\ ~ret.none
        /\ [k \in 1..Len(ret.list) |-> ret.list[k].class] = ExpectedClasses

\* C3: with a ratio that fails the sum check, a call of split_class fails
\* with an error before any filesystem mutation: once split_class has been
\* called the run is aborted, no directory is created and no file is copied
\* or moved
C3_AssertBeforeMutation ==
    ~RatioOk(ratio) =>
        /\ src = src0
        /\ dirs = {}
        /\ \A d \in OutDirs : out[d] = {}
        /\ called # {} => pc = "aborted"

\* C4: with move=false and a non-null seed, a second run over the same
\* class directories computes the same per-class counts and the same
\* file-to-split assignment as the first, whatever state the random source
\* had before each run
C4_Determinism ==
    (run >= 2 /\ ~move /\ seed # None) =>
        /\ \A c \in called \cap hist.called :
               assign[c] # << >> => assign[c] = hist.assign[c]
        /\ (pc = "done" /\ called = hist.called) =>
               (assign = hist.assign /\ summary = hist.summary)

C4_Witness ==
    /\ run = 2
    /\ pc = "done"
    /\ ~move
    /\ seed # None
    /\ shuffle
    /\ \E c \in ClassNames :
           /\ Len(assign[c]) >= 2
           /\ Assigned(c, "train") # Range(SubSeq(Qualifying(src[c]), 1, Cardinality(Assigned(c, "train"))))
           /\ Assigned(c, "train") # {}
           /\ Assigned(c, "val") # {}

\* C5: the split groups of a class share no file name, and from an empty
\* output tree no image of a class is in more than one output directory
C5_Disjoint ==
    /\ \A a, b \in 1..Len(splits) :
           a # b => Range(splits[a].images) \cap Range(splits[b].images) = {}
    /\ run = 1 =>
           \A c \in ClassNames : \A s1, s2 \in {"train", "val", "test"} :
               s1 # s2 => out[<<s1, c>>] \cap out[<<s2, c>>] = {}

C5_Witness ==
    /\ run = 1
    /\ pc = "done"
    /\ \E c \in ClassNames :
           /\ out[<<"train", c>>] # {}
           /\ out[<<"val", c>>] # {}
           /\ out[<<"test", c>>] # {}

\* C6: from an empty output tree, after a run output_dir/split/class exists
\* iff the split's ratio is > 0 and a file of the class was assigned to it;
\* zero-ratio splits have count 0; a class without images gets no directory
C6_DirsIffAssigned ==
    (run = 1 /\ pc = "done") =>
        /\ \A d \in OutDirs :
               /\ d \in dirs <=> (ratio[Idx(d[1])] > 0 /\ Assigned(d[2], d[1]) # {})
               /\ d \in dirs <=> out[d] # {}
               /\ Len(Qualifying(src0[d[2]])) = 0 => d \notin dirs
        /\ \A k \in 1..Len(summary) :
               /\ ratio[1] = 0 => summary[k].train = 0
               /\ ratio[2] = 0 => summary[k].val = 0
               /\ ratio[3] = 0 => summary[k].test = 0

C6_Witness ==
    /\ run = 1
    /\ pc = "done"
    /\ ratio[2] > 0
    /\ ratio[3] = 0
    /\ <<"train", "cat">> \in dirs
    /\ <<"val", "cat">> \notin dirs
    /\ Len(Qualifying(src0["dog"])) = 0

\* C7: after a completed run with move=true and a ratio that passes the sum
\* check, the second run finds no qualifying image in any class directory
\* the first run has split
C7_SecondRunFindsNothing ==
    (run >= 2 /\ move /\ RatioOk(ratio)) =>
        \A c \in hist.called : Len(Qualifying(src0[c])) = 0

\* C8 as stated: with move=false a second run with the same arguments, over
\* class directories the first run has split, leaves the output tree as the
\* first run left it
C8_RerunSameTree ==
    (run >= 2 /\ ~move /\ called \subseteq hist.called) =>
        (out = hist.out /\ dirs = hist.dirs)

\* C8 amended: with move=false and either a non-null seed or shuffle=false, a
\* second run with the same arguments, over class directories the first run
\* has split, leaves the output tree as the first run left it: it adds no
\* file and no directory and removes none
C8_RerunSameTreeSeeded ==
    (run >= 2 /\ ~move /\ (seed # None \/ ~shuffle) /\ called \subseteq hist.called) =>
        (out = hist.out /\ dirs = hist.dirs)

C8_Witness ==
    /\ run = 2
    /\ pc = "done"
    /\ ~move
    /\ seed # None
    /\ shuffle
    /\ \E c \in ClassNames : out[<<"train", c>>] # {} /\ out[<<"test", c>>] # {}
    /\ out = hist.out

\* C9: with all three ratios > 0, train is the first
\* floor(total * train_ratio) images, val the next floor(total * val_ratio),
\* test the remaining total - floor(..) - floor(..), and train ++ val ++ test
\* is the post-shuffle list
C9_Truncating ==
    (pc = "sliced" /\ ratio[1] > 0 /\ ratio[2] > 0 /\ ratio[3] > 0) =>
        LET total == Len(images)
            a == Floor(total, ratio[1])
            b == Floor(total, ratio[2])
        IN  /\ Len(splits) = 3
            /\ Len(splits[1].images) = a
            /\ Len(splits[2].images) = b
            /\ Len(splits[3].images) = total - a - b
            /\ splits[1].images = SubSeq(images, 1, a)
            /\ splits[2].images = SubSeq(images, a + 1, a + b)
            /\ splits[1].images \o splits[2].images \o splits[3].images = images

\* C10: classes are processed one after the other in enumeration order; once
\* a placement (or the creation of a directory) has failed the run is aborted
\* and nothing is placed any more;
\* nothing that was placed is taken back
C10_FailFast ==
    [][ /\ err # "" => (pc = "aborted" /\ pc' = "aborted" /\ UNCHANGED <<src, out, dirs>>)
        /\ err' # "" => pc' = "aborted"
        /\ run' = run =>
               /\ i' >= i
               /\ \A d \in OutDirs : out[d] \subseteq out'[d]
               /\ dirs \subseteq dirs'
        /\ \A d \in OutDirs :
               (out'[d] # out[d] \/ (d \in dirs' /\ d \notin dirs)) =>
                   (pc = "place" /\ d[2] = data_dir[i].name)
        /\ run' = 1 =>
               \A k \in (i' + 1)..Len(data_dir) :
                   data_dir[k].isdir =>
                       \A s \in {"train", "val", "test"} : out'[<<s, data_dir[k].name>>] = {}
      ]_vars

C10_Witness ==
    /\ pc = "aborted"
    /\ err = "OSError"
    /\ run = 1
    /\ i >= 1
    /\ data_dir[i].name = "dog"
    /\ out[<<"train", "cat">>] # {}
    /\ out[<<"train", "dog">>] # {}
    /\ out[<<"test", "dog">>] = {}
    /\ Assigned("dog", "test") # {}
    /\ Len(summary) = 1

\* C11: with move=false the entries of every source class directory never
\* change, and an entry whose lower-cased suffix is not in image_extensions is
\* never put into the output tree
C11_CopyKeepsSource ==
    ~move =>
        /\ src = src0
        /\ \A c \in ClassNames : \A s \in {"train", "val", "test"} :
               /\ out[<<s, c>>] \subseteq Range(src0[c])
               /\ \A f \in out[<<s, c>>] : Lower(f.ext) \in {".png", ".jpg", ".jpeg"}

C11_Witness ==
    /\ ~move
    /\ pc = "done"
    /\ src = src0
    /\ \E c \in ClassNames :
           /\ \E f \in Range(src[c]) : f.ext = ".txt"
           /\ \E s \in {"train", "val", "test"} : \E f \in out[<<s, c>>] : f.ext = ".PNG"
           /\ Range(Qualifying(src[c])) =
                  out[<<"train", c>>] \cup out[<<"val", c>>] \cup out[<<"test", c>>]

\* the places where image f of class c is: "source" and the split directories
Locations(c, f) ==
    (IF f \in Range(src[c]) THEN {"source"} ELSE {})
    \cup {s \in {"train", "val", "test"} : f \in out[<<s, c>>]}

\* C12 as stated: in every state of a first run with move=true, also after a
\* failed placement, each qualifying image of the source tree is in exactly
\* one place: its source directory or one output directory of its class
C12_Conservation ==
    (move /\ run = 1) =>
        \A c \in ClassNames : \A f \in Range(Qualifying(src0[c])) :
            Cardinality(Locations(c, f)) = 1

\* C12 amended: in every state of a first run with move=true each qualifying
\* image is in its source directory or in exactly one output directory of its
\* class, never in neither and never in two output directories; it is in both
\* its source directory and an output directory only when it is the image
\* whose move failed and aborted the run
C12_ConservationUpToFailedMove ==
    (move /\ run = 1) =>
        \A c \in ClassNames : \A f \in Range(Qualifying(src0[c])) :
            /\ Locations(c, f) # {}
            /\ Cardinality(Locations(c, f) \ {"source"}) <= 1
            /\ Cardinality(Locations(c, f)) = 2 =>
                   /\ pc = "aborted"
                   /\ err = "OSError"
                   /\ c = data_dir[i].name
                   /\ f = splits[g].images[j]

C12_Witness ==
    /\ move
    /\ run = 1
    /\ pc = "aborted"
    /\ err = "OSError"
    /\ i >= 1
    /\ data_dir[i].name = "dog"
    /\ j >= 1
    /\ Locations("dog", splits[g].images[j]) = {"source", "val"}
    /\ \E f \in Range(Qualifying(src0["dog"])) : Locations("dog", f) = {"train"}
    /\ \E f \in Range(Qualifying(src0["dog"])) : Locations("dog", f) = {"source"}
    /\ \E f \in Range(Qualifying(src0["cat"])) : Locations("cat", f) = {"test"}

====
